---- MODULE Spec2Model ----
(***************************************************************************)
(* EV optimizer of pokemon_showdown_helper (core_logic/ev_optimizer.py),   *)
(* with the parts of PokemonInstance (core_logic/pokemon_object.py),       *)
(* NATURES_DATA (data_scripts/constants.py) and DamageCalculator           *)
(* (core_logic/damage_calculator.py) that one call of                      *)
(* EVOptimizer.optimize_evs goes through.                                  *)
(*                                                                         *)
(* Spec: one behaviour is one call of optimize_evs: Init draws the         *)
(* arguments, the actions are the statements of the method in program      *)
(* order.  StatsSpec: one behaviour constructs a PokemonInstance and calls *)
(* calculate_stats.  DamageSpec: one behaviour is one call of              *)
(* DamageCalculator.calculate_damage with a move, its type and a power.    *)
(* TeamSpec: one behaviour is a Team (core_logic/team_object.py) and the   *)
(* add_pokemon and remove_pokemon calls made on it.  SolverSpec: one       *)
(* behaviour is one call of EVOptimizer._calculate_required_evs_for_stat.  *)
(* Python floats are modelled by exact rationals: a nature multiplier m    *)
(* is the integer 10*m, and int(x) is truncation of a quotient of          *)
(* integers.                                                               *)
(***************************************************************************)
EXTENDS Integers, Sequences, FiniteSets, TLC

(***************************************************************************)
(* Bounds of the model.                                                    *)
(***************************************************************************)
MaxGoals == 3

(***************************************************************************)
(* Program constants.                                                      *)
(***************************************************************************)
max_evs == 510
max_stat_evs == 252

Stats == {"hp", "atk", "def", "spa", "spd", "spe"}

\* Python's None where the other values are strings.
None == "None"

Min(a, b) == IF a <= b THEN a ELSE b
Max(a, b) == IF a >= b THEN a ELSE b

\* int(n / d) for d > 0: Python's int() truncates toward zero.
Trunc(n, d) == IF n >= 0 THEN n \div d ELSE -((-n) \div d)

\* sum(evs.values())
SumEvs(e) == e["hp"] + e["atk"] + e["def"] + e["spa"] + e["spd"] + e["spe"]

AllStats(v) == [s \in Stats |-> v]

MkStats(hp, atk, def, spa, spd, spe) ==
    [s \in Stats |-> CASE s = "hp" -> hp [] s = "atk" -> atk [] s = "def" -> def
                       [] s = "spa" -> spa [] s = "spd" -> spd [] OTHER -> spe]

(***************************************************************************)
(* data_scripts/constants.py: NATURES_DATA.  Each nature maps to a dict    *)
(* holding ONLY the stats it changes (value = 10 * multiplier); the        *)
(* neutral natures map to the empty dict.                                  *)
(***************************************************************************)
NatureEntry(up, down) == (up :> 11) @@ (down :> 9)
EmptyDict == [s \in {} |-> 10]

NATURES_DATA ==
    [n \in {"Adamant", "Bashful", "Bold", "Brave", "Calm", "Careful", "Docile",
            "Gentle", "Hardy", "Hasty", "Impish", "Jolly", "Lax", "Lonely",
            "Mild", "Modest", "Naive", "Naughty", "Quiet", "Quirky", "Rash",
            "Relaxed", "Sassy", "Serious", "Timid"} |->
       CASE n = "Adamant" -> NatureEntry("atk", "spa")
         [] n = "Bold"    -> NatureEntry("def", "atk")
         [] n = "Brave"   -> NatureEntry("atk", "spe")
         [] n = "Calm"    -> NatureEntry("spd", "atk")
         [] n = "Careful" -> NatureEntry("spd", "spa")
         [] n = "Gentle"  -> NatureEntry("spd", "def")
         [] n = "Hasty"   -> NatureEntry("spe", "def")
         [] n = "Impish"  -> NatureEntry("def", "spa")
         [] n = "Jolly"   -> NatureEntry("spe", "spa")
         [] n = "Lax"     -> NatureEntry("def", "spd")
         [] n = "Lonely"  -> NatureEntry("atk", "def")
         [] n = "Mild"    -> NatureEntry("spa", "def")
         [] n = "Modest"  -> NatureEntry("spa", "atk")
         [] n = "Naive"   -> NatureEntry("spe", "spd")
         [] n = "Naughty" -> NatureEntry("atk", "spd")
         [] n = "Quiet"   -> NatureEntry("spa", "spe")
         [] n = "Rash"    -> NatureEntry("spa", "spd")
         [] n = "Relaxed" -> NatureEntry("def", "spe")
         [] n = "Sassy"   -> NatureEntry("spd", "spe")
         [] n = "Timid"   -> NatureEntry("spe", "atk")
         [] OTHER         -> EmptyDict]

\* NATURES_DATA.get(self.nature, {every stat: 1.0})
nature_modifiers(nature) ==
    IF nature \in DOMAIN NATURES_DATA THEN NATURES_DATA[nature] ELSE AllStats(10)

(***************************************************************************)
(* core_logic/pokemon_object.py: PokemonInstance.                          *)
(***************************************************************************)
\* The attributes __init__ sets and the methods the class defines.
PokemonAttrs == {"species", "level", "base_stats", "iv", "ev", "nature",
                 "ability", "item", "moves", "types",
                 "calculate_stats", "from_db_row"}

\* __init__ with its dict arguments as they are passed: <<>> is None (or an
\* empty dict), <<d>> is the dict d; "x or default" picks the default for
\* the former.  Nothing is validated.
PokemonInit(species, level, base_stats, iv, ev, nature) ==
    [species |-> species, level |-> level,
     base_stats |-> IF Len(base_stats) > 0 THEN base_stats[1] ELSE AllStats(50),
     iv |-> IF Len(iv) > 0 THEN iv[1] ELSE AllStats(31),
     ev |-> IF Len(ev) > 0 THEN ev[1] ELSE AllStats(0),
     nature |-> nature]

\* __init__ called with base_stats and ev, iv left to its default.
PokemonInstance(species, level, base_stats, ev, nature) ==
    PokemonInit(species, level, <<base_stats>>, <<>>, <<ev>>, nature)

\* calculate_stats raises KeyError when nature_modifiers[stat] is looked up
\* for a non-HP stat the nature's dict does not hold.
CalculateStatsRaises(p) ==
    \E s \in Stats \ {"hp"} : s \notin DOMAIN nature_modifiers(p.nature)

\* One entry of the dict calculate_stats returns, for a creature whose ev
\* mapping is ev (defined when CalculateStatsRaises is false).
\*   base = (2*base + iv + ev // 4) * level / 100
\*   hp: int(base + level + 10), other: int((base + 5) * modifier)
CalcStat(p, ev, s) ==
    LET num == (2 * p.base_stats[s] + p.iv[s] + (ev[s] \div 4)) * p.level
    IN  IF s = "hp"
        THEN Trunc(num + 100 * (p.level + 10), 100)
        ELSE Trunc((num + 500) * nature_modifiers(p.nature)[s], 1000)

\* The dict calculate_stats returns (defined when CalculateStatsRaises is
\* false).
calculate_stats(p) == [s \in Stats |-> CalcStat(p, p.ev, s)]

(***************************************************************************)
(* core_logic/damage_calculator.py: DamageCalculator.calculate_damage as   *)
(* the optimizer calls it: calculate_damage(a, d, move, <ev dict>, <ev     *)
(* dict>), i.e. move_type and move_power are both dicts.  The creatures of *)
(* this model have the constructor's defaults types = [] and ability =     *)
(* item = None, so the type, ability and item factors are computed without *)
(* touching move_type.  The value is the exception the call ends with.     *)
(***************************************************************************)
calculate_damage(attacker, defender) ==
    IF CalculateStatsRaises(attacker) \/ CalculateStatsRaises(defender)
    THEN "KeyError"            \* _get_attack_defense_stats -> calculate_stats
    ELSE IF "status" \notin PokemonAttrs
    THEN "AttributeError"      \* _calculate_status_modifier: attacker.status
    ELSE "TypeError"           \* base_damage: float * dict

\* random_factor = random.uniform(0.85, 1.00) in thousandths: the two ends
\* of the interval and two values inside it.
MinRoll == 850
MaxRoll == 1000

\* rolls of an interval that starts below 0.85
WideRolls == {700, 850, 1000}

Rolls == {MinRoll, 900, 950, MaxRoll}

\* calculate_damage draws random_factor (line 156) once the stats, the STAB
\* and the type factor are computed (lines 150-154), and before the status
\* factor (line 161) is.
DrawsRoll(attacker, defender) ==
    ~CalculateStatsRaises(attacker) /\ ~CalculateStatsRaises(defender)

(***************************************************************************)
(* core_logic/ev_optimizer.py: EVOptimizer.                                *)
(***************************************************************************)
get_positive_natures(stat) ==
    CASE stat = "atk" -> {"adamant", "brave", "naughty", "lonely"}
      [] stat = "def" -> {"bold", "relaxed", "impish", "lax"}
      [] stat = "spa" -> {"modest", "quiet", "mild", "rash"}
      [] stat = "spd" -> {"calm", "sassy", "careful", "gentle"}
      [] stat = "spe" -> {"timid", "hasty", "jolly", "naive"}
      [] OTHER -> {}

get_negative_natures(stat) ==
    CASE stat = "atk" -> {"modest", "timid", "bold", "calm"}
      [] stat = "def" -> {"lonely", "hasty", "mild", "gentle"}
      [] stat = "spa" -> {"adamant", "impish", "careful", "jolly"}
      [] stat = "spd" -> {"naughty", "lax", "rash", "naive"}
      [] stat = "spe" -> {"brave", "relaxed", "quiet", "sassy"}
      [] OTHER -> {}

\* 10 * (1.1 if nature in positive else 0.9 if nature in negative else 1.0)
stat_nature(p, stat) ==
    IF p.nature \in get_positive_natures(stat) THEN 11
    ELSE IF p.nature \in get_negative_natures(stat) THEN 9
    ELSE 10

\* int(((target / nature - 5) * 100 / base - 2 * base - iv) * 4), clamped:
\* the expression is the quotient of
\*   4000*target - 2000*n - 4*(2*base + iv)*n*base   by   n*base
\* where n = 10 * nature.
InvertStat(p, stat, target) ==
    LET n    == stat_nature(p, stat)
        base == p.base_stats[stat]
        num  == 4000 * target - 2000 * n - 4 * (2 * base + p.iv[stat]) * n * base
        required_evs == Trunc(num, n * base)
    IN  Max(0, Min(required_evs, max_stat_evs))

calculate_required_evs_for_stat(p, stat, target_value) ==
    InvertStat(p, stat, target_value)

calculate_required_speed_evs(p, target_speed) ==
    InvertStat(p, "spe", target_speed + 1)

\* What one of the _optimize_* methods hands back: the exception it ends
\* with ("none" when it returns) and the dict it returns.
Returns(e) == [err |-> "none", evs |-> e]
Raises(x, e) == [err |-> x, evs |-> e]

\* if required <= remaining_evs: evs[stat] = min(required, 252)
\* else:                         evs[stat] = min(remaining_evs, 252)
Allocate(evs, stat, required, remaining) ==
    IF required <= remaining
    THEN [evs EXCEPT ![stat] = Min(required, max_stat_evs)]
    ELSE [evs EXCEPT ![stat] = Min(remaining, max_stat_evs)]

optimize_custom(p, stat, target_value, current_evs, remaining) ==
    IF stat \notin DOMAIN p.base_stats
    THEN Raises("KeyError", current_evs)
    ELSE Returns(Allocate(current_evs, stat,
                          calculate_required_evs_for_stat(p, stat, target_value),
                          remaining))


(***************************************************************************)
(* The creatures and goals of the model.  A goal names its target creature *)
(* by species (an object reference); None is "no target".                  *)
(***************************************************************************)
ZeroEvs == AllStats(0)

Creatures ==
    { PokemonInstance("A", 100, AllStats(100), ZeroEvs, "serious"),
      PokemonInstance("B", 100, MkStats(80, 120, 80, 60, 80, 100),
                      MkStats(0, 0, 0, 252, 0, 252), "timid"),
      PokemonInstance("C", 50, MkStats(35, 55, 40, 50, 50, 90), ZeroEvs, "Serious") }

Species == {c.species : c \in Creatures}

Creature(name) == CHOOSE c \in Creatures : c.species = name

\* The four goal kinds below never get past their first statements for a
\* PokemonInstance: the class has no calculate_hp and no calculate_speed,
\* and calculate_damage ends with an exception (see above).  Argument
\* expressions such as attacker.ev are evaluated first and fail on None.
optimize_survival(p, attacker, current_evs) ==
    IF attacker = None
    THEN Raises("AttributeError", current_evs)
    ELSE Raises(calculate_damage(Creature(attacker), p), current_evs)

optimize_ohko(p, target, current_evs) ==
    IF target = None
    THEN Raises("AttributeError", current_evs)
    ELSE Raises(calculate_damage(p, Creature(target)), current_evs)

optimize_2hko(p, target, current_evs) ==
    IF target = None
    THEN Raises("AttributeError", current_evs)
    ELSE Raises(calculate_damage(p, Creature(target)), current_evs)

\* target.calculate_speed(target.ev['spe'])
optimize_speed(p, target, current_evs, remaining) ==
    IF target = None \/ "calculate_speed" \notin PokemonAttrs
    THEN Raises("AttributeError", current_evs)
    ELSE Returns(Allocate(current_evs, "spe",
                          calculate_required_speed_evs(p,
                              CalcStat(Creature(target), Creature(target).ev, "spe")),
                          remaining))

(***************************************************************************)
(* The goals and fixed_evs inputs of the model.                            *)
(***************************************************************************)
\* EVOptimizationGoal(type, target_pokemon, move, stat, value, priority)
EVOptimizationGoal(type, target, move, stat, value, priority) ==
    [type |-> type, target_pokemon |-> target, move |-> move, stat |-> stat,
     value |-> value, priority |-> priority]

GoalPool ==
    { EVOptimizationGoal("custom", None, None, "spa", 300, 2),
      EVOptimizationGoal("custom", None, None, "spa", 250, 1),
      EVOptimizationGoal("custom", None, None, "atk", 300, 1),
      EVOptimizationGoal("custom", None, None, "spe", 999, 3),
      EVOptimizationGoal("outspeed", "A", None, None, 0, 2),
      EVOptimizationGoal("outspeed", "B", None, None, 0, 1),
      EVOptimizationGoal("ohko", "A", "Nope", None, 0, 2),
      EVOptimizationGoal("2hko", None, "Tackle", None, 0, 1),
      EVOptimizationGoal("survive", "B", "Flamethrower", None, 0, 1) }

\* fixed_evs: <<>> is None, <<d>> is the dict d.
FixedPool ==
    { <<>>,
      <<MkStats(4, 0, 0, 252, 0, 252)>>,
      <<MkStats(0, 0, 0, 100, 0, 0)>>,
      <<MkStats(252, 252, 0, 0, 0, 0)>>,
      <<MkStats(252, 252, 252, 0, 0, 0)>> }

(***************************************************************************)
(* goals.sort(key=lambda g: g.priority, reverse=True): list.sort is        *)
(* stable, also with reverse=True, so goals of equal priority keep their   *)
(* input order.                                                            *)
(***************************************************************************)
InsertTiesFirst(sorted, g) ==
    LET k == Cardinality({j \in 1..Len(sorted) : sorted[j].priority > g.priority})
    IN  SubSeq(sorted, 1, k) \o <<g>> \o SubSeq(sorted, k + 1, Len(sorted))

InsertDesc(sorted, g) ==
    LET k == Cardinality({j \in 1..Len(sorted) : sorted[j].priority >= g.priority})
    IN  SubSeq(sorted, 1, k) \o <<g>> \o SubSeq(sorted, k + 1, Len(sorted))

RECURSIVE SortFrom(_, _, _)
SortFrom(gs, j, acc) ==
    IF j > Len(gs) THEN acc ELSE SortFrom(gs, j + 1, InsertDesc(acc, gs[j]))

SortGoals(gs) == SortFrom(gs, 1, <<>>)

(***************************************************************************)
(* The body of the for loop of optimize_evs for one goal: the if/elif      *)
(* chain on goal.type (a type that is none of the five changes nothing).   *)
(***************************************************************************)
ApplyGoal(p, goal, evs_, remaining) ==
    CASE goal.type = "survive"  -> optimize_survival(p, goal.target_pokemon, evs_)
      [] goal.type = "ohko"     -> optimize_ohko(p, goal.target_pokemon, evs_)
      [] goal.type = "2hko"     -> optimize_2hko(p, goal.target_pokemon, evs_)
      [] goal.type = "outspeed" -> optimize_speed(p, goal.target_pokemon, evs_, remaining)
      [] goal.type = "custom"   -> optimize_custom(p, goal.stat, goal.value, evs_, remaining)
      [] OTHER                  -> Returns(evs_)

\* evs = fixed_evs.copy() if fixed_evs else {all six: 0}
InitialEvs(fixed) == IF Len(fixed) > 0 THEN fixed[1] ELSE ZeroEvs

\* The guard at the head of the loop body: if remaining_evs <= 0: break
BudgetExhaustedStrict(remaining) == remaining < 0

BudgetExhausted(remaining) == remaining <= 0

(***************************************************************************)
(* State of one call optimize_evs(pokemon, goals, fixed_evs).              *)
(***************************************************************************)
VARIABLES
    pokemon,        \* the creature argument
    goals,          \* the caller's list object (sorted in place)
    fixed_evs,      \* the fixed_evs argument
    evs,            \* local: the running allocation
    remaining_evs,  \* local: max_evs - sum(evs.values())
    i,              \* position of the for loop in goals (1-based)
    pc,             \* "sort", "init", "loop", "done" (returned evs), "raised"
    err,            \* the exception the call ended with, "none" otherwise
    input_goals,    \* the caller's list as it was when the call began
    processed,      \* ids of the goals the loop body has dispatched, in order
    rolls,          \* the values random.uniform returned during the call
    call,           \* the function under call and its arguments
    ret,            \* what that function returned or raised
    members         \* Team.members of the team under construction

vars == <<pokemon, goals, fixed_evs, evs, remaining_evs, i, pc, err,
          input_goals, processed, rolls, call, ret, members>>

\* Every goal object carries its position in the caller's list as identity.
GoalLists ==
    UNION { { [k \in 1..n |-> f[k] @@ [id |-> k]] : f \in [1..n -> GoalPool] }
            : n \in 0..MaxGoals }

Init ==
    /\ pokemon \in Creatures
    /\ goals \in GoalLists
    /\ fixed_evs \in FixedPool
    /\ evs = ZeroEvs
    /\ remaining_evs = 0
    /\ i = 1
    /\ pc = "sort"
    /\ err = "none"
    /\ input_goals = goals
    /\ processed = <<>>
    /\ rolls = <<>>
    /\ call = "optimize_evs"
    /\ ret = "pending"
    /\ members = <<>>

\* line 64
Sort ==
    /\ pc = "sort"
    /\ goals' = SortGoals(goals)
    /\ pc' = "init"
    /\ UNCHANGED <<members, pokemon, fixed_evs, evs, remaining_evs, i, err, input_goals, processed, rolls, call, ret>>

\* lines 67-72
InitEvs ==
    /\ pc = "init"
    /\ evs' = InitialEvs(fixed_evs)
    /\ remaining_evs' = max_evs - SumEvs(evs')
    /\ i' = 1
    /\ pc' = "loop"
    /\ UNCHANGED <<members, pokemon, goals, fixed_evs, err, input_goals, processed, rolls, call, ret>>

\* The goals whose _optimize_* method calls calculate_damage and gets as far
\* as its random_factor.
GoalDrawsRoll(p, goal) ==
    /\ goal.type \in {"survive", "ohko", "2hko"}
    /\ goal.target_pokemon # None
    /\ DrawsRoll(p, Creature(goal.target_pokemon))

\* lines 75-101, a goal whose _optimize_* call returns
ProcessGoal ==
    /\ pc = "loop"
    /\ i <= Len(goals)
    /\ ~BudgetExhausted(remaining_evs)
    /\ LET r == ApplyGoal(pokemon, goals[i], evs, remaining_evs)
       IN  /\ r.err = "none"
           /\ evs' = r.evs
           /\ remaining_evs' = max_evs - SumEvs(r.evs)
    /\ processed' = Append(processed, goals[i].id)
    /\ i' = i + 1
    /\ UNCHANGED <<members, pokemon, goals, fixed_evs, pc, err, input_goals, rolls, call, ret>>

\* lines 75-98, a goal whose _optimize_* call raises: the exception leaves
\* optimize_evs, nothing is returned
GoalRaises ==
    /\ pc = "loop"
    /\ i <= Len(goals)
    /\ ~BudgetExhausted(remaining_evs)
    /\ LET r == ApplyGoal(pokemon, goals[i], evs, remaining_evs)
       IN  /\ r.err # "none"
           /\ err' = r.err
    /\ IF GoalDrawsRoll(pokemon, goals[i])
       THEN \E random_factor \in Rolls : rolls' = Append(rolls, random_factor)
       ELSE rolls' = rolls
    /\ processed' = Append(processed, goals[i].id)
    /\ pc' = "raised"
    /\ UNCHANGED <<members, pokemon, goals, fixed_evs, evs, remaining_evs, i, input_goals, call, ret>>

\* lines 76-77 and 103: break, return evs
Break ==
    /\ pc = "loop"
    /\ i <= Len(goals)
    /\ BudgetExhausted(remaining_evs)
    /\ pc' = "done"
    /\ UNCHANGED <<members, pokemon, goals, fixed_evs, evs, remaining_evs, i, err, input_goals, processed, rolls, call, ret>>

\* line 103 after the last goal: return evs
Return ==
    /\ pc = "loop"
    /\ i > Len(goals)
    /\ pc' = "done"
    /\ UNCHANGED <<members, pokemon, goals, fixed_evs, evs, remaining_evs, i, err, input_goals, processed, rolls, call, ret>>

Next == Sort \/ InitEvs \/ ProcessGoal \/ GoalRaises \/ Break \/ Return

Spec == Init /\ [][Next]_vars


(***************************************************************************)
(* optimize_evs as a function of its arguments: the exception it ends with *)
(* ("none" when it returns) and the allocation it returns.                 *)
(***************************************************************************)
RECURSIVE RunFrom(_, _, _, _)
RunFrom(p, gs, j, r) ==
    IF \/ j > Len(gs)
       \/ r.err # "none"
       \/ BudgetExhausted(max_evs - SumEvs(r.evs))
    THEN r
    ELSE RunFrom(p, gs, j + 1, ApplyGoal(p, gs[j], r.evs, max_evs - SumEvs(r.evs)))

optimize_evs(p, gs, fixed) == RunFrom(p, SortGoals(gs), 1, Returns(InitialEvs(fixed)))

\* The stepwise call and the function agree on the outcome.
StepwiseAgrees ==
    /\ pc = "done" => optimize_evs(pokemon, input_goals, fixed_evs) = Returns(evs)
    /\ pc = "raised" => optimize_evs(pokemon, input_goals, fixed_evs).err = err

(***************************************************************************)
(* Vocabulary of the properties.                                           *)
(***************************************************************************)
\* The creature's final stat s when its ev mapping is e, where
\* calculate_stats returns.
StatsDefined(p) == ~CalculateStatsRaises(p)

\* The remaining budget under an allocation.
Remaining(e) == max_evs - SumEvs(e)

WithinLimits(e) == SumEvs(e) <= max_evs /\ \A s \in Stats : e[s] <= max_stat_evs

\* The caller's goal object whose identity is k.
InputGoal(k) == input_goals[k]


(***************************************************************************)
(* C1.  For every creature, goal list and fixed_evs, the allocation        *)
(* optimize_evs returns totals at most 510 and holds at most 252 in each   *)
(* stat.                                                                   *)
(***************************************************************************)
C1_BudgetInvariant == pc = "done" => WithinLimits(evs)

(***************************************************************************)
(* C2.  Fixed EVs are a floor: the returned allocation is, in every stat,  *)
(* at least what fixed_evs holds for that stat.                            *)
(***************************************************************************)
C2_FixedFloor ==
    pc = "done" => \A s \in Stats : evs[s] >= InitialEvs(fixed_evs)[s]

(***************************************************************************)
(* C3.  Goals are processed strictly in descending priority, goals of      *)
(* equal priority in the order of the caller's list: whenever goal a is    *)
(* dispatched before goal b, or a has been dispatched and b not yet, a has *)
(* the higher priority, or the same priority and the earlier input         *)
(* position.                                                               *)
(***************************************************************************)
Before(a, b) ==
    \/ InputGoal(a).priority > InputGoal(b).priority
    \/ InputGoal(a).priority = InputGoal(b).priority /\ a < b

C3_PriorityOrder ==
    /\ \A m, n \in 1..Len(processed) : m < n => Before(processed[m], processed[n])
    /\ \A m \in 1..Len(processed) :
         \A k \in 1..Len(input_goals) :
           (\A n \in 1..Len(processed) : processed[n] # k) => Before(processed[m], k)

\* A call that dispatched three goals, two of them of equal priority and one
\* of another priority, in an order other than the caller's.
C3_Witness ==
    /\ Len(processed) = 3
    /\ processed # <<1, 2, 3>>
    /\ \E m, n \in 1..3 :
         m # n /\ InputGoal(processed[m]).priority = InputGoal(processed[n]).priority
    /\ \E m, n \in 1..3 :
         InputGoal(processed[m]).priority # InputGoal(processed[n]).priority

(***************************************************************************)
(* C4.  A goal that is already satisfied under the current partial         *)
(* allocation leaves the allocation unchanged in every stat when it is     *)
(* processed.  Satisfaction is read off calculate_stats: a custom goal     *)
(* when the named final stat is at least the value, an outspeed goal when  *)
(* the creature's final speed exceeds the target's.                        *)
(***************************************************************************)
AlreadySatisfied(p, goal, e) ==
    /\ StatsDefined(p)
    /\ \/ /\ goal.type = "custom"
          /\ goal.stat \in Stats
          /\ CalcStat(p, e, goal.stat) >= goal.value
       \/ /\ goal.type = "outspeed"
          /\ goal.target_pokemon # None
          /\ StatsDefined(Creature(goal.target_pokemon))
          /\ CalcStat(p, e, "spe") >
               CalcStat(Creature(goal.target_pokemon), Creature(goal.target_pokemon).ev, "spe")

C4_SatisfiedNoChange ==
    [][(/\ pc = "loop"
        /\ i <= Len(goals)
        /\ ~BudgetExhausted(remaining_evs)
        /\ AlreadySatisfied(pokemon, goals[i], evs)) => evs' = evs]_vars

(***************************************************************************)
(* C5.  Once the remaining budget (510 minus the sum of the allocation) is *)
(* 0 or less, no later goal is dispatched and the allocation stays as it   *)
(* is: the call returns the allocation of that moment.                     *)
(***************************************************************************)
C5_ExhaustedFrozen ==
    [][(pc = "loop" /\ Remaining(evs) <= 0)
         => (evs' = evs /\ processed' = processed /\ pc' = "done")]_vars

\* A call that returned with goals still pending because an earlier goal of
\* the same call used up the budget.
C5_Witness ==
    /\ pc = "done"
    /\ i <= Len(goals)
    /\ Len(processed) >= 1
    /\ Remaining(evs) <= 0
    /\ Remaining(InitialEvs(fixed_evs)) > 0


(***************************************************************************)
(* C6.  Monotonic improvement: when the caller's list is G plus one goal g *)
(* of lower priority than every goal of G, the returned allocation is, in  *)
(* every stat a goal of G allocated to, at least what the call returns for *)
(* G alone.                                                                *)
(***************************************************************************)
\* The caller's list without the goal object whose identity is k.
Without(k) == SelectSeq(input_goals, LAMBDA g : g.id # k)

\* The stats the call for the goal list gs commits EVs to.
AllocatedBy(p, gs, fixed) ==
    {s \in Stats : optimize_evs(p, gs, fixed).evs[s] > InitialEvs(fixed)[s]}

C6_Monotonic ==
    (/\ pc = "done"
     /\ Len(goals) >= 2
     /\ \A k \in 1..(Len(goals) - 1) : goals[k].priority > goals[Len(goals)].priority)
    => LET G == Without(goals[Len(goals)].id)
           alone == optimize_evs(pokemon, G, fixed_evs)
       IN  alone.err = "none" =>
             \A s \in AllocatedBy(pokemon, G, fixed_evs) : evs[s] >= alone.evs[s]

(***************************************************************************)
(* C7.  A single custom goal (stat, value) on a non-HP stat: whenever some *)
(* EV count e in [0, min(252, remaining budget)] gives the creature a      *)
(* final stat of at least value under calculate_stats, the returned        *)
(* allocation gives it a final stat of at least value.                     *)
(***************************************************************************)
Reachable(p, fixed, s, value) ==
    \E e \in 0..Min(max_stat_evs, Remaining(InitialEvs(fixed))) :
        CalcStat(p, [InitialEvs(fixed) EXCEPT ![s] = e], s) >= value

C7_CustomReaches ==
    (/\ pc = "done"
     /\ Len(goals) = 1
     /\ goals[1].type = "custom"
     /\ goals[1].stat \in Stats \ {"hp"}
     /\ StatsDefined(pokemon)
     /\ Reachable(pokemon, fixed_evs, goals[1].stat, goals[1].value))
    => CalcStat(pokemon, evs, goals[1].stat) >= goals[1].value

(***************************************************************************)
(* C8.  A single outspeed goal against a target of speed T: whenever some  *)
(* speed EV count within the budget and the 252 cap gives the creature a   *)
(* final speed above T, the call returns an allocation under which its     *)
(* final speed is strictly greater than T.                                 *)
(***************************************************************************)
TargetSpeed(goal) ==
    CalcStat(Creature(goal.target_pokemon), Creature(goal.target_pokemon).ev, "spe")

C8_Outspeeds ==
    (/\ pc \in {"done", "raised"}
     /\ Len(goals) = 1
     /\ goals[1].type = "outspeed"
     /\ goals[1].target_pokemon # None
     /\ StatsDefined(pokemon)
     /\ StatsDefined(Creature(goals[1].target_pokemon))
     /\ Reachable(pokemon, fixed_evs, "spe", TargetSpeed(goals[1]) + 1))
    => (pc = "done" /\ CalcStat(pokemon, evs, "spe") > TargetSpeed(goals[1]))

(***************************************************************************)
(* C9.  An infeasible goal (no allocation within 252 per stat and 510 in   *)
(* total satisfies it) never makes optimize_evs fail: processing it raises *)
(* nothing and the loop goes on to the goals after it.                     *)
(***************************************************************************)
Infeasible(p, goal) ==
    /\ StatsDefined(p)
    /\ \/ /\ goal.type = "custom"
          /\ goal.stat \in Stats
          /\ CalcStat(p, AllStats(max_stat_evs), goal.stat) < goal.value
       \/ /\ goal.type = "outspeed"
          /\ goal.target_pokemon # None
          /\ StatsDefined(Creature(goal.target_pokemon))
          /\ CalcStat(p, AllStats(max_stat_evs), "spe") <= TargetSpeed(goal)

C9_InfeasibleNoFail ==
    [][(/\ pc = "loop"
        /\ i <= Len(goals)
        /\ ~BudgetExhausted(remaining_evs)
        /\ Infeasible(pokemon, goals[i])) => (pc' = "loop" /\ i' = i + 1)]_vars

(***************************************************************************)
(* C10.  A goal that references an unresolvable target makes optimize_evs  *)
(* raise before any goal is processed: when its error is raised, no other  *)
(* goal has been evaluated or committed and the caller's list is as it was *)
(* passed in.                                                              *)
(***************************************************************************)
Unresolvable(goal) ==
    goal.type \in {"survive", "ohko", "2hko", "outspeed"} /\ goal.target_pokemon = None

C10_FailFast ==
    (pc = "raised" /\ Unresolvable(goals[i]))
    => /\ processed = <<goals[i].id>>
       /\ goals = input_goals

(***************************************************************************)
(* C11. Whenever the survive check of _optimize_survival is made, the      *)
(* damage it compares with the defender's HP is computed with the random   *)
(* factor pinned to 1.00, never with a sampled roll, so that a goal        *)
(* treated as satisfied survives every roll.                               *)
(***************************************************************************)
SurviveChecked ==
    /\ pc = "raised"
    /\ goals[i].type = "survive"
    /\ goals[i].target_pokemon # None

OhkoChecked ==
    /\ pc = "raised"
    /\ goals[i].type = "ohko"
    /\ goals[i].target_pokemon # None

C13_InputsImmutable ==
    [][/\ goals' = goals
       /\ fixed_evs' = fixed_evs
       /\ pokemon' = pokemon]_vars

(***************************************************************************)
(* _optimize_survival, lines 132-142: the allocation once required_hp and  *)
(* required_def (each clamped to 0..252 by _calculate_required_*_evs) are  *)
(* known.  Both branches assign evs['hp'] and evs[defense_stat].           *)
(***************************************************************************)
survival_allocate(current_evs, defense_stat, required_hp, required_def, remaining) ==
    IF required_hp + required_def <= remaining
    THEN [current_evs EXCEPT !["hp"] = Min(required_hp, max_stat_evs),
                             ![defense_stat] = Min(required_def, max_stat_evs)]
    ELSE LET total_required == required_hp + required_def
         IN  [current_evs EXCEPT
                 !["hp"] = Min(Trunc(remaining * required_hp, total_required),
                               max_stat_evs),
                 ![defense_stat] = Min(Trunc(remaining * required_def, total_required),
                                       max_stat_evs)]

(***************************************************************************)
(* C14. Processing a survive goal whose attacker is given ends with an     *)
(* allocation, not with an exception; when the HP and defence EVs the goal *)
(* needs exceed the remaining budget, that allocation is the split of the  *)
(* remaining budget in proportion to the two requirements, and the EVs the *)
(* goal commits to HP and the defence stat never exceed the remaining      *)
(* budget.                                                                 *)
(***************************************************************************)
SurviveStep ==
    /\ pc = "loop"
    /\ i <= Len(goals)
    /\ ~BudgetExhausted(remaining_evs)
    /\ goals[i].type = "survive"
    /\ goals[i].target_pokemon # None

optimizer_vars == <<pokemon, goals, fixed_evs, evs, remaining_evs, i,
                    input_goals, processed>>

OptimizerIdle ==
    /\ pokemon = None
    /\ goals = <<>>
    /\ fixed_evs = <<>>
    /\ evs = ZeroEvs
    /\ remaining_evs = 0
    /\ i = 0
    /\ input_goals = <<>>
    /\ processed = <<>>
    /\ rolls = <<>>
    /\ members = <<>>

Levels == {1, 50, 100}

BasePool ==
    { <<>>,
      <<MkStats(1, 90, 45, 30, 30, 40)>>,
      <<MkStats(35, 55, 40, 50, 50, 90)>>,
      <<AllStats(255)>> }

IvPool == { <<>>, <<AllStats(0)>>, <<MkStats(31, 0, 31, 31, 31, 30)>>, <<AllStats(32)>> }

EvPool ==
    { <<>>,
      <<MkStats(4, 0, 0, 252, 0, 252)>>,
      <<AllStats(85)>>,
      <<MkStats(252, 252, 252, 0, 0, 0)>>,
      <<MkStats(0, 300, 0, 0, 0, 0)>> }

NaturePool == DOMAIN NATURES_DATA \cup {"serious", "timid"}

StatsInit ==
    /\ OptimizerIdle
    /\ call \in [level : Levels, base_stats : BasePool, iv : IvPool,
                  ev : EvPool, nature : NaturePool]
    /\ ret = [obj |-> <<>>, stats |-> <<>>]
    /\ err = "none"
    /\ pc = "construct"

\* PokemonInstance(species, level, base_stats, iv, ev, nature)
Construct ==
    /\ pc = "construct"
    /\ ret' = [ret EXCEPT !.obj = <<PokemonInit("X", call.level, call.base_stats,
                                                call.iv, call.ev, call.nature)>>]
    /\ pc' = "constructed"
    /\ UNCHANGED <<call, err, rolls, optimizer_vars, members>>

\* obj.calculate_stats() returns the dict
StatsReturn ==
    /\ pc = "constructed"
    /\ ~CalculateStatsRaises(ret.obj[1])
    /\ ret' = [ret EXCEPT !.stats = <<calculate_stats(ret.obj[1])>>]
    /\ pc' = "done"
    /\ UNCHANGED <<call, err, rolls, optimizer_vars, members>>

\* obj.calculate_stats() raises on nature_modifiers[stat]
StatsRaise ==
    /\ pc = "constructed"
    /\ CalculateStatsRaises(ret.obj[1])
    /\ err' = "KeyError"
    /\ pc' = "raised"
    /\ UNCHANGED <<call, ret, rolls, optimizer_vars, members>>

StatsNext == Construct \/ StatsReturn \/ StatsRaise

StatsSpec == StatsInit /\ [][StatsNext]_vars

(***************************************************************************)
(* Vocabulary of the claims about PokemonInstance.                         *)
(***************************************************************************)
\* IVs in [0,31], EVs in [0,252], EV total at most 510.
ValidStats(p) ==
    /\ \A s \in Stats : p.iv[s] \in 0..31 /\ p.ev[s] \in 0..max_stat_evs
    /\ SumEvs(p.ev) <= max_evs

\* calculate_stats was called on a valid instance with a nature of the table
\* and the call has ended.
ValidCallEnded ==
    /\ pc \in {"done", "raised"}
    /\ ValidStats(ret.obj[1])
    /\ ret.obj[1].nature \in DOMAIN NATURES_DATA

\* The multiplier of the nature table, times 10: 11 for the stat the
\* nature raises, 9 for the one it lowers, 10 otherwise.
NatureMultiplier(nature, s) ==
    IF nature \in DOMAIN NATURES_DATA /\ s \in DOMAIN NATURES_DATA[nature]
    THEN NATURES_DATA[nature][s]
    ELSE 10

\* floor((2*base + iv + floor(ev/4)) * level / 100)
FlooredBase(p, s) ==
    ((2 * p.base_stats[s] + p.iv[s] + (p.ev[s] \div 4)) * p.level) \div 100

\* floor((FlooredBase + 5) * multiplier)
FinalStat(p, s, multiplier) == ((FlooredBase(p, s) + 5) * multiplier) \div 10

(***************************************************************************)
(* C15. For every valid instance and every nature of the table,            *)
(* calculate_stats returns, for each non-HP stat,                          *)
(* floor((floor((2*base+iv+floor(ev/4))*level/100)+5)*natureMultiplier);   *)
(* at level 100 under a multiplier of 1 that is 2*base+iv+floor(ev/4)+5.   *)
(***************************************************************************)
C15_NonHpFormula ==
    ValidCallEnded =>
        /\ pc = "done"
        /\ \A s \in Stats \ {"hp"} :
              LET p == ret.obj[1]
                  m == NatureMultiplier(p.nature, s)
              IN  /\ ret.stats[1][s] = FinalStat(p, s, m)
                  /\ (p.level = 100 /\ m = 10) =>
                        ret.stats[1][s] =
                            2 * p.base_stats[s] + p.iv[s] + (p.ev[s] \div 4) + 5

(***************************************************************************)
(* C16. For every valid instance and every nature of the table,            *)
(* calculate_stats returns a non-negative integer for each of the six      *)
(* stats, and HP = floor((2*base+iv+floor(ev/4))*level/100) + level + 10,  *)
(* which is at least level + 10.                                           *)
(***************************************************************************)
C16_StatsNonNegative ==
    ValidCallEnded =>
        /\ pc = "done"
        /\ \A s \in Stats : ret.stats[1][s] \in Nat
        /\ LET p == ret.obj[1]
           IN  /\ ret.stats[1]["hp"] = FlooredBase(p, "hp") + p.level + 10
               /\ ret.stats[1]["hp"] >= p.level + 10

(***************************************************************************)
(* C17. Whenever calculate_stats returns for a valid instance whose base   *)
(* HP is 1, the HP it returns is exactly 1, whatever the level, the IVs    *)
(* and the EVs.                                                            *)
(***************************************************************************)
C17_BaseHpOne ==
    (pc = "done" /\ ValidStats(ret.obj[1]) /\ ret.obj[1].base_stats["hp"] = 1)
        => ret.stats[1]["hp"] = 1

(***************************************************************************)
(* C18. For each of the 25 nature names and every valid instance,          *)
(* calculate_stats returns a value at least the neutral one for the stat   *)
(* the nature raises, at most the neutral one for the stat it lowers, and  *)
(* the same HP as under a neutral nature.                                  *)
(***************************************************************************)
C18_NatureSymmetry ==
    ValidCallEnded =>
        /\ pc = "done"
        /\ LET p == ret.obj[1]
           IN  /\ \A s \in Stats \ {"hp"} :
                     /\ NatureMultiplier(p.nature, s) = 11 =>
                           ret.stats[1][s] >= FinalStat(p, s, 10)
                     /\ NatureMultiplier(p.nature, s) = 9 =>
                           ret.stats[1][s] <= FinalStat(p, s, 10)
               /\ ret.stats[1]["hp"] = CalcStat([p EXCEPT !.nature = "neutral"], p.ev, "hp")

(***************************************************************************)
(* C19. Construction fails for an IV outside [0,31], an EV outside [0,252] *)
(* or an EV total above 510: every instance that was constructed has IVs   *)
(* and EVs within those limits.                                            *)
(***************************************************************************)
C19_ConstructionValidates ==
    Len(ret.obj) > 0 => ValidStats(ret.obj[1])

(***************************************************************************)
(* core_logic/damage_calculator.py: DamageCalculator, called with a move   *)
(* type (a string) and a move power (an integer).  A factor f is the       *)
(* integer 10*f; a product of factors is kept as a reduced fraction        *)
(* <<numerator, denominator>>, and int(x) truncates the final quotient.    *)
(***************************************************************************)
\* self.type_effectiveness, lines 14-33
type_effectiveness ==
    ("normal" :>
        (("rock" :> 5) @@ ("ghost" :> 0) @@ ("steel" :> 5))) @@
    ("fire" :>
        (("fire" :> 5) @@ ("water" :> 5) @@ ("grass" :> 20) @@
         ("ice" :> 20) @@ ("bug" :> 20) @@ ("rock" :> 5) @@
         ("dragon" :> 5) @@ ("steel" :> 20))) @@
    ("water" :>
        (("fire" :> 20) @@ ("water" :> 5) @@ ("grass" :> 5) @@
         ("ground" :> 20) @@ ("rock" :> 20) @@ ("dragon" :> 5))) @@
    ("electric" :>
        (("water" :> 20) @@ ("electric" :> 5) @@ ("grass" :> 5) @@
         ("ground" :> 0) @@ ("flying" :> 20) @@ ("dragon" :> 5))) @@
    ("grass" :>
        (("fire" :> 5) @@ ("water" :> 20) @@ ("grass" :> 5) @@
         ("poison" :> 5) @@ ("ground" :> 20) @@ ("flying" :> 5) @@
         ("bug" :> 5) @@ ("rock" :> 20) @@ ("dragon" :> 5) @@
         ("steel" :> 5))) @@
    ("ice" :>
        (("fire" :> 5) @@ ("water" :> 5) @@ ("grass" :> 20) @@
         ("ice" :> 5) @@ ("ground" :> 20) @@ ("flying" :> 20) @@
         ("dragon" :> 20) @@ ("steel" :> 5))) @@
    ("fighting" :>
        (("normal" :> 20) @@ ("ice" :> 20) @@ ("poison" :> 5) @@
         ("flying" :> 5) @@ ("psychic" :> 5) @@ ("bug" :> 5) @@
         ("rock" :> 20) @@ ("ghost" :> 0) @@ ("dark" :> 20) @@
         ("steel" :> 20) @@ ("fairy" :> 5))) @@
    ("poison" :>
        (("grass" :> 20) @@ ("poison" :> 5) @@ ("ground" :> 5) @@
         ("rock" :> 5) @@ ("ghost" :> 5) @@ ("steel" :> 0) @@
         ("fairy" :> 20))) @@
    ("ground" :>
        (("fire" :> 20) @@ ("electric" :> 20) @@ ("grass" :> 5) @@
         ("poison" :> 20) @@ ("flying" :> 0) @@ ("bug" :> 5) @@
         ("rock" :> 20) @@ ("steel" :> 20))) @@
    ("flying" :>
        (("electric" :> 5) @@ ("grass" :> 20) @@ ("fighting" :> 20) @@
         ("bug" :> 20) @@ ("rock" :> 5) @@ ("steel" :> 5))) @@
    ("psychic" :>
        (("fighting" :> 20) @@ ("poison" :> 20) @@ ("psychic" :> 5) @@
         ("dark" :> 0) @@ ("steel" :> 5))) @@
    ("bug" :>
        (("fire" :> 5) @@ ("grass" :> 20) @@ ("fighting" :> 5) @@
         ("poison" :> 5) @@ ("flying" :> 5) @@ ("psychic" :> 20) @@
         ("ghost" :> 5) @@ ("dark" :> 20) @@ ("steel" :> 5) @@
         ("fairy" :> 5))) @@
    ("rock" :>
        (("fire" :> 20) @@ ("ice" :> 20) @@ ("fighting" :> 5) @@
         ("ground" :> 5) @@ ("flying" :> 20) @@ ("bug" :> 20) @@
         ("steel" :> 5))) @@
    ("ghost" :>
        (("normal" :> 0) @@ ("psychic" :> 20) @@ ("ghost" :> 20) @@
         ("dark" :> 5))) @@
    ("dragon" :>
        (("dragon" :> 20) @@ ("steel" :> 5) @@ ("fairy" :> 0))) @@
    ("dark" :>
        (("fighting" :> 5) @@ ("psychic" :> 20) @@ ("ghost" :> 20) @@
         ("dark" :> 5) @@ ("fairy" :> 5))) @@
    ("steel" :>
        (("fire" :> 5) @@ ("water" :> 5) @@ ("electric" :> 5) @@
         ("ice" :> 20) @@ ("rock" :> 20) @@ ("steel" :> 5) @@
         ("fairy" :> 20))) @@
    ("fairy" :>
        (("fighting" :> 20) @@ ("poison" :> 5) @@ ("dragon" :> 20) @@
         ("dark" :> 20) @@ ("steel" :> 5)))

\* self.weather_boost, lines 36-41
weather_boost ==
    ("sun" :> (("fire" :> 15) @@ ("water" :> 5))) @@
    ("rain" :> (("water" :> 15) @@ ("fire" :> 5))) @@
    ("sand" :> ("rock" :> 15)) @@
    ("hail" :> ("ice" :> 15))

\* self.field_boost, lines 44-49
field_boost ==
    ("electric_terrain" :> ("electric" :> 15)) @@
    ("grassy_terrain" :> ("grass" :> 15)) @@
    ("psychic_terrain" :> ("psychic" :> 15)) @@
    ("misty_terrain" :> ("dragon" :> 5))

\* self.ability_modifiers, lines 52-60
ability_modifiers ==
    ("adaptability" :> 20) @@ ("technician" :> 15) @@ ("tinted_lens" :> 20) @@
    ("aerilate" :> 12) @@ ("pixilate" :> 12) @@ ("refrigerate" :> 12) @@
    ("galvanize" :> 12)

\* The move types the calculator takes for special moves (lines 64, 117-123,
\* 129).
SpecialTypes == {"fire", "water", "electric", "grass", "ice", "psychic",
                 "dragon", "dark", "fairy"}

RECURSIVE Gcd(_, _)
Gcd(a, b) == IF b = 0 THEN a ELSE Gcd(b, a % b)

\* The fraction n/d (n >= 0, d > 0) in lowest terms.
Frac(n, d) == IF n = 0 THEN <<0, 1>> ELSE <<n \div Gcd(n, d), d \div Gcd(n, d)>>

\* The product of two fractions in lowest terms.
Times(x, y) ==
    IF x[1] = 0 \/ y[1] = 0
    THEN <<0, 1>>
    ELSE LET g1 == Gcd(x[1], y[2])
             g2 == Gcd(y[1], x[2])
         IN  <<(x[1] \div g1) * (y[1] \div g2), (x[2] \div g2) * (y[2] \div g1)>>

\* A PokemonInstance with the attributes the calculator reads.  types is a
\* list; status is no attribute of a constructed instance (<<>>), <<v>> once
\* a caller has assigned instance.status = v.
PokemonFull(species, level, base_stats, iv, ev, nature, ability, item, types) ==
    PokemonInit(species, level, base_stats, iv, ev, nature) @@
    [ability |-> ability, item |-> item, types |-> types, status |-> <<>>]

\* _get_attack_defense_stats, lines 62-66: <<attack, defense>>
get_attack_defense_stats(attacker, defender, move_type) ==
    IF move_type \in SpecialTypes
    THEN <<calculate_stats(attacker)["spa"], calculate_stats(defender)["spd"]>>
    ELSE <<calculate_stats(attacker)["atk"], calculate_stats(defender)["def"]>>

\* _calculate_stab, lines 68-75
calculate_stab(attacker, move_type) ==
    IF \E k \in 1..Len(attacker.types) : attacker.types[k] = move_type
    THEN IF attacker.ability = "adaptability" THEN 20 ELSE 15
    ELSE 10

\* _calculate_type_effectiveness, lines 77-83: the loop from position k on
RECURSIVE EffectivenessFrom(_, _, _, _)
EffectivenessFrom(row, types, k, effectiveness) ==
    IF k > Len(types)
    THEN effectiveness
    ELSE EffectivenessFrom(row, types, k + 1,
             IF types[k] \in DOMAIN row
             THEN Times(effectiveness, Frac(row[types[k]], 10))
             ELSE effectiveness)

\* the effectiveness against the defender's first type alone
calculate_type_effectiveness_first(move_type, defender) ==
    IF Len(defender.types) = 0
    THEN <<1, 1>>
    ELSE IF /\ move_type \in DOMAIN type_effectiveness
            /\ defender.types[1] \in DOMAIN type_effectiveness[move_type]
    THEN Frac(type_effectiveness[move_type][defender.types[1]], 10)
    ELSE <<1, 1>>

calculate_type_effectiveness(move_type, defender) ==
    EffectivenessFrom(IF move_type \in DOMAIN type_effectiveness
                      THEN type_effectiveness[move_type]
                      ELSE EmptyDict,
                      defender.types, 1, <<1, 1>>)

\* _calculate_weather_modifier, lines 85-89
calculate_weather_modifier(move_type, weather) ==
    IF weather # None /\ weather \in DOMAIN weather_boost
    THEN IF move_type \in DOMAIN weather_boost[weather]
         THEN weather_boost[weather][move_type]
         ELSE 10
    ELSE 10

\* _calculate_field_modifier, lines 91-95
calculate_field_modifier(move_type, field) ==
    IF field # None /\ field \in DOMAIN field_boost
    THEN IF move_type \in DOMAIN field_boost[field]
         THEN field_boost[field][move_type]
         ELSE 10
    ELSE 10

\* the low-power boost applied whatever the ability is
calculate_ability_modifier_any(attacker, move_type, move_power, effectiveness) ==
    IF attacker.ability = None
    THEN 10
    ELSE IF move_power <= 60
    THEN ability_modifiers["technician"]
    ELSE 10

\* _calculate_ability_modifier, lines 97-109
calculate_ability_modifier(attacker, move_type, move_power, effectiveness) ==
    IF attacker.ability = None
    THEN 10
    ELSE IF attacker.ability = "technician" /\ move_power <= 60
    THEN ability_modifiers["technician"]
    ELSE IF attacker.ability = "tinted_lens" /\ effectiveness[1] < effectiveness[2]
    THEN ability_modifiers["tinted_lens"]
    ELSE IF /\ attacker.ability \in {"aerilate", "pixilate", "refrigerate", "galvanize"}
            /\ move_type = "normal"
    THEN ability_modifiers[attacker.ability]
    ELSE 10

\* str.lower() on the item names of the model
Lower(item) ==
    CASE item = "Choice Band" -> "choice band"
      [] item = "Choice Specs" -> "choice specs"
      [] item = "Light Ball" -> "light ball"
      [] item = "Life_Orb" -> "life_orb"
      [] OTHER -> item

\* _calculate_item_modifier, lines 111-125
calculate_item_modifier(attacker, move_type) ==
    IF attacker.item = None
    THEN 10
    ELSE LET key == Lower(attacker.item)
         IN  CASE key = "choice_band" -> IF move_type \notin SpecialTypes THEN 15 ELSE 10
               [] key = "choice_specs" -> IF move_type \in SpecialTypes THEN 15 ELSE 10
               [] key = "life_orb" -> 13
               [] key = "expert_belt" -> 12
               [] key = "metronome" -> 10
               [] key = "muscle_band" -> IF move_type \notin SpecialTypes THEN 11 ELSE 10
               [] key = "wise_glasses" -> IF move_type \in SpecialTypes THEN 11 ELSE 10
               [] OTHER -> 10

\* _calculate_status_modifier, lines 127-131: the exception it raises, "none"
\* when it returns (1.0 then: with status "burn" the name move_type of line
\* 129 is not defined in the method).
calculate_status_modifier(attacker) ==
    IF Len(attacker.status) = 0
    THEN "AttributeError"
    ELSE IF attacker.status[1] = "burn"
    THEN "NameError"
    ELSE "none"

\* calculate_damage, lines 133-169, with random_factor in thousandths given:
\* the exception raised ("none" when it returns) and the integer returned.
CalculateDamage(attacker, defender, move_type, move_power, is_critical, weather, field, random_factor) ==
    IF CalculateStatsRaises(attacker) \/ CalculateStatsRaises(defender)
    THEN [err |-> "KeyError", damage |-> 0]
    ELSE IF calculate_status_modifier(attacker) # "none"
    THEN [err |-> calculate_status_modifier(attacker), damage |-> 0]
    ELSE
    LET stats == get_attack_defense_stats(attacker, defender, move_type)
        attack == stats[1]
        defense == stats[2]
        effectiveness == calculate_type_effectiveness(move_type, defender)
        modifier ==
            Times(Times(Times(Times(Times(Times(Times(
                Frac(calculate_stab(attacker, move_type), 10),
                effectiveness),
                Frac(IF is_critical THEN 15 ELSE 10, 10)),
                Frac(random_factor, 1000)),
                Frac(calculate_weather_modifier(move_type, weather), 10)),
                Frac(calculate_field_modifier(move_type, field), 10)),
                Frac(calculate_ability_modifier(attacker, move_type, move_power,
                                                effectiveness), 10)),
                Frac(calculate_item_modifier(attacker, move_type), 10))
    IN  IF defense = 0
        THEN [err |-> "ZeroDivisionError", damage |-> 0]
        ELSE LET base_damage ==
                     Frac((2 * attacker.level + 10) * move_power * attack
                              + 500 * defense,
                          250 * defense)
                 total == Times(base_damage, modifier)
             IN  [err |-> "none", damage |-> Trunc(total[1], total[2])]

(***************************************************************************)
(* DamageCalculator on its own: one behaviour is one call                  *)
(* calculate_damage(attacker, defender, move, move_type, move_power,       *)
(* is_critical, weather, field) on instances drawn by DamageInit, after    *)
(* the caller has or has not assigned attacker.status.  call holds the     *)
(* arguments, ret the integer returned (<<>> while there is none), err the *)
(* exception raised, rolls the random_factor drawn.                        *)
(***************************************************************************)
Battlers ==
    { PokemonFull("Pikachu", 50, <<MkStats(35, 55, 40, 50, 50, 90)>>, <<>>, <<>>,
                  "Timid", "Static", "Light Ball", <<"Electric">>),
      PokemonFull("pika", 50, <<MkStats(35, 55, 40, 50, 50, 90)>>, <<>>,
                  <<MkStats(4, 0, 0, 252, 0, 252)>>,
                  "timid", "Static", "Light Ball", <<"electric">>),
      PokemonFull("gyara", 50, <<MkStats(95, 125, 79, 60, 100, 81)>>, <<>>, <<>>,
                  "adamant", "technician", "choice_band", <<"water", "flying">>),
      PokemonFull("adapt", 100, <<AllStats(100)>>, <<>>, <<>>,
                  "serious", "adaptability", "Life_Orb", <<"fire">>),
      PokemonFull("tint", 100, <<AllStats(80)>>, <<AllStats(0)>>, <<>>,
                  "serious", "tinted_lens", None, <<"grass", "steel">>),
      PokemonFull("plain", 100, <<>>, <<>>, <<>>,
                  "serious", None, None, <<>>),
      PokemonFull("band", 50, <<MkStats(95, 125, 79, 60, 100, 81)>>, <<>>, <<>>,
                  "adamant", "Intimidate", "Choice Band", <<"water", "flying">>),
      PokemonFull("Adapt", 100, <<AllStats(100)>>, <<>>, <<>>,
                  "serious", "Adaptability", None, <<"fire">>) }

\* The moves of the model with the type the caller passes for each.
Moves ==
    ("Thunderbolt" :> "electric") @@ ("Waterfall" :> "water") @@
    ("Tackle" :> "normal") @@ ("Flamethrower" :> "fire") @@
    ("Earthquake" :> "ground")

MoveTypes == {Moves[m] : m \in DOMAIN Moves}

\* EVOptimizer.special_moves: the names of the moves whose category is
\* Special, as the tests load it.
special_moves == {"Flamethrower", "Thunderbolt", "Ice Beam"}

MovePowers == {40, 60, 61, 90}

Weathers == {None, "rain", "sun"}

Fields == {None, "electric_terrain"}

\* The values a caller assigns to attacker.status.
Statuses == {None, "burn", "paralysis"}

DamageInit ==
    /\ OptimizerIdle
    /\ \E m \in DOMAIN Moves :
          call \in [attacker : Battlers, defender : Battlers, move : {m},
                    move_type : {Moves[m]}, move_power : MovePowers,
                    is_critical : BOOLEAN, weather : Weathers, field : Fields]
    /\ ret = [damage |-> <<>>]
    /\ rolls = <<>>
    /\ err = "none"
    /\ pc = "call"

\* attacker.status = v, as the callers that use a status do before the call
AssignStatus ==
    /\ pc = "call"
    /\ Len(call.attacker.status) = 0
    /\ \E v \in Statuses : call' = [call EXCEPT !.attacker.status = <<v>>]
    /\ UNCHANGED <<ret, rolls, err, pc, optimizer_vars, members>>

\* calculate_damage returns int(base_damage * modifier)
DamageReturn ==
    /\ pc = "call"
    /\ \E random_factor \in Rolls :
          LET r == CalculateDamage(call.attacker, call.defender, call.move_type,
                                   call.move_power, call.is_critical, call.weather,
                                   call.field, random_factor)
          IN  /\ r.err = "none"
              /\ ret' = [damage |-> <<r.damage>>]
              /\ rolls' = <<random_factor>>
    /\ pc' = "done"
    /\ UNCHANGED <<call, err, optimizer_vars, members>>

\* calculate_damage raises; random_factor is drawn when line 156 is reached
DamageRaise ==
    /\ pc = "call"
    /\ LET r == CalculateDamage(call.attacker, call.defender, call.move_type,
                                call.move_power, call.is_critical, call.weather,
                                call.field, MaxRoll)
       IN  /\ r.err # "none"
           /\ err' = r.err
    /\ IF DrawsRoll(call.attacker, call.defender)
       THEN \E random_factor \in Rolls : rolls' = <<random_factor>>
       ELSE rolls' = rolls
    /\ pc' = "raised"
    /\ UNCHANGED <<call, ret, optimizer_vars, members>>

DamageNext == AssignStatus \/ DamageReturn \/ DamageRaise

DamageSpec == DamageInit /\ [][DamageNext]_vars

(***************************************************************************)
(* C20. For every attacker and defender built by PokemonInstance (with     *)
(* stats that calculate_stats returns) whose attacker has no status        *)
(* condition, calculate_damage does not raise: it returns an integer >= 0, *)
(* the floor of the base term times the product of the modifiers.          *)
(***************************************************************************)
NoStatusCondition(p) == Len(p.status) = 0 \/ p.status[1] = None

C20_DamageReturns ==
    (/\ pc \in {"done", "raised"}
     /\ StatsDefined(call.attacker) /\ StatsDefined(call.defender)
     /\ NoStatusCondition(call.attacker)) =>
        /\ pc = "done"
        /\ ret.damage[1] \in Nat

(***************************************************************************)
(* Vocabulary of the claims about one returned calculate_damage call.      *)
(***************************************************************************)
\* calculate_damage on the arguments c with the random_factor given
DamageOf(c, random_factor) ==
    CalculateDamage(c.attacker, c.defender, c.move_type, c.move_power,
                    c.is_critical, c.weather, c.field, random_factor)

\* the call has returned: ret.damage[1] is its result, rolls[1] its roll
Returned == pc = "done"

\* the result of the same call with move power p and the same roll
DamageAtPower(p) == DamageOf([call EXCEPT !.move_power = p], rolls[1]).damage

\* the attack and defence stats the call uses are positive
PositiveStats ==
    LET stats == get_attack_defense_stats(call.attacker, call.defender, call.move_type)
    IN  stats[1] > 0 /\ stats[2] > 0

\* technician boosts the lower power p1 and not the higher power p2
CrossesTechnician(p1, p2) ==
    call.attacker.ability = "technician" /\ p1 <= 60 /\ p2 > 60

\* C21 as stated: with the roll pinned and everything else fixed, a higher
\* move power gives strictly greater damage.
C21_StrictInPower ==
    Returned =>
        \A p2 \in MovePowers :
            p2 > call.move_power => DamageAtPower(p2) > ret.damage[1]

\* C21 amended: with the roll pinned, everything else fixed and positive
\* attack and defence stats, a higher move power never gives less damage,
\* unless the attacker's ability is technician and only the lower power is
\* at most 60.
C21_MonotoneInPower ==
    (Returned /\ PositiveStats) =>
        \A p2 \in MovePowers :
            (p2 > call.move_power /\ ~CrossesTechnician(call.move_power, p2))
                => DamageAtPower(p2) >= ret.damage[1]

C21_Witness ==
    /\ Returned
    /\ PositiveStats
    /\ call.move_power = 40
    /\ ret.damage[1] > 0
    /\ DamageAtPower(90) > ret.damage[1]

\* the entry of the effectiveness table for a move type against one
\* defending type (1.0 where the table has none)
TableEntry(move_type, defender_type) ==
    IF /\ move_type \in DOMAIN type_effectiveness
       /\ defender_type \in DOMAIN type_effectiveness[move_type]
    THEN Frac(type_effectiveness[move_type][defender_type], 10)
    ELSE <<1, 1>>

\* against a dual-type defender the effectiveness of the call is the product
\* of the two table entries
DualTypeProduct ==
    Len(call.defender.types) = 2 =>
        calculate_type_effectiveness(call.move_type, call.defender) =
            Times(TableEntry(call.move_type, call.defender.types[1]),
                  TableEntry(call.move_type, call.defender.types[2]))

\* the call is made against a defender that takes 4x from the move
FourTimesEffective ==
    calculate_type_effectiveness(call.move_type, call.defender) = <<4, 1>>

\* the result of the same call, same roll, against the same defender taking
\* 1x (no type of its own)
DamageNeutral == DamageOf([call EXCEPT !.defender.types = <<>>], rolls[1]).damage

\* C22 as stated: dual-type effectiveness is the product of the entries, and
\* with the roll pinned the damage against a 4x defender is exactly 4 times
\* the damage against a 1x defender with the same stats.
C22_ExactlyFourTimes ==
    Returned =>
        /\ DualTypeProduct
        /\ FourTimesEffective => ret.damage[1] = 4 * DamageNeutral

\* C22 amended: dual-type effectiveness is the product of the entries, and
\* with the roll pinned the damage against a 4x defender is at least 4 times
\* and at most 4 times plus 3 the damage against a 1x defender with the same
\* stats (each result is truncated once, at the end).
C22_FourTimesTruncated ==
    Returned =>
        /\ DualTypeProduct
        /\ FourTimesEffective =>
              /\ ret.damage[1] >= 4 * DamageNeutral
              /\ ret.damage[1] <= 4 * DamageNeutral + 3

C22_Witness ==
    /\ Returned
    /\ Len(call.defender.types) = 2
    /\ FourTimesEffective
    /\ DamageNeutral > 0
    /\ ret.damage[1] > 4 * DamageNeutral

\* <<attack, defense>> chosen by the category of the move: a move of
\* special_moves is special, any other move physical
CategoryStats(attacker, defender, move) ==
    IF move \in special_moves
    THEN <<calculate_stats(attacker)["spa"], calculate_stats(defender)["spd"]>>
    ELSE <<calculate_stats(attacker)["atk"], calculate_stats(defender)["def"]>>

\* C23: the attack and defence stats a returned call used are chosen by the
\* category of the move (physical: atk against def, special: spa against
\* spd), whatever the type of the move is.
C23_StatsByCategory ==
    Returned =>
        get_attack_defense_stats(call.attacker, call.defender, call.move_type)
            = CategoryStats(call.attacker, call.defender, call.move)

\* the move of the call has one of the attacker's types
OwnTypeMove ==
    \E k \in 1..Len(call.attacker.types) : call.attacker.types[k] = call.move_type

\* the attacker of the call has the ability Adaptability, as the callers
\* or as the calculator spell it
HasAdaptability == call.attacker.ability \in {"Adaptability", "adaptability"}

\* the STAB factor (x10) of the claim
StabClaimed ==
    IF OwnTypeMove
    THEN IF HasAdaptability THEN 20 ELSE 15
    ELSE 10

\* the result of the same call, same roll, by the same attacker with the
\* ability given
DamageWithAbility(ability) ==
    DamageOf([call EXCEPT !.attacker.ability = ability], rolls[1]).damage

\* C24: STAB is 1.5 when the move has one of the attacker's types, 2.0 when
\* the attacker also has Adaptability, 1.0 otherwise; so with the roll pinned
\* an Adaptability attacker using a move of its own type deals strictly more
\* damage than the same attacker with another ability.
C24_AdaptabilityStab ==
    Returned =>
        /\ calculate_stab(call.attacker, call.move_type) = StabClaimed
        /\ (HasAdaptability /\ OwnTypeMove)
              => ret.damage[1] > DamageWithAbility("Static")

\* the result of the same call with the roll r
DamageAtRoll(r) == DamageOf(call, r).damage

\* the roll of a returned call lies in [0.85, 1.00]
RollInRange == rolls[1] >= 850 /\ rolls[1] <= 1000

CallEnded == pc \in {"done", "raised"}

\* the caller has assigned attacker.status = "burn"
Burned == Len(call.attacker.status) = 1 /\ call.attacker.status[1] = "burn"

\* the result of the same call, same roll, by the same attacker unburned
DamageUnburned ==
    DamageOf([call EXCEPT !.attacker.status = <<None>>], rolls[1]).damage

\* C26: a call by a burned attacker whose stats are defined returns; with a
\* physical move its damage is halved, strictly less than the unburned
\* attacker's at the same roll, and with a special move it is unchanged.
C26_BurnHalvesPhysical ==
    (CallEnded /\ Burned /\ StatsDefined(call.attacker) /\ StatsDefined(call.defender)) =>
        /\ Returned
        /\ call.move \notin special_moves => ret.damage[1] < DamageUnburned
        /\ call.move \in special_moves => ret.damage[1] = DamageUnburned

\* the attacker of the call holds a Choice Band, as the callers or as the
\* calculator's table spell it
HoldsChoiceBand == call.attacker.item \in {"Choice Band", "choice_band"}

\* the result of the same call, same roll, by the same attacker holding
\* nothing
DamageWithoutItem ==
    DamageOf([call EXCEPT !.attacker.item = None], rolls[1]).damage

\* C27: the item factor is looked up by the item's name, 1.5 for a Choice
\* Band on a physical move; so with the roll pinned a Choice Band holder
\* using a physical move deals strictly more damage than the same attacker
\* with no item.
C27_ChoiceBandBoosts ==
    (Returned /\ HoldsChoiceBand /\ call.move \notin special_moves) =>
        /\ calculate_item_modifier(call.attacker, call.move_type) = 15
        /\ ret.damage[1] > DamageWithoutItem

(***************************************************************************)
(* Team on its own: a team built by Team() and any sequence of             *)
(* add_pokemon and remove_pokemon calls.  members is Team.members, call    *)
(* the last method called with its argument, ret what it returned (<<>>    *)
(* before the first call).                                                 *)
(***************************************************************************)
MAX_TEAM_SIZE == 6

\* make_pokemon of the tests: every argument but the species and the level
\* left to its default
make_pokemon(name, level) == PokemonInit(name, level, <<>>, <<>>, <<>>, "Serious")

\* the instances callers add: seven species, and a second instance of the
\* first of them
TeamPool ==
    {make_pokemon(name, 100) :
        name \in {"Poke0", "Poke1", "Poke2", "Poke3", "Poke4", "Poke5", "Extra"}}
    \cup {make_pokemon("Poke0", 50)}

\* the species callers ask to remove
TeamSpecies == {p.species : p \in TeamPool} \cup {"Charmander"}

\* a team is full only beyond MAX_TEAM_SIZE
TeamFullStrict(team) == Len(team) > MAX_TEAM_SIZE

\* line 24: len(self.members) >= self.MAX_TEAM_SIZE
TeamFull(team) == Len(team) >= MAX_TEAM_SIZE

\* line 26: any(p.species == pokemon.species for p in self.members)
HasSpecies(team, species) == \E k \in 1..Len(team) : team[k].species = species

\* del self.members[k]
DeleteAt(team, k) == SubSeq(team, 1, k - 1) \o SubSeq(team, k + 1, Len(team))

\* lines 35-36: the first position holding the species
FirstOf(team, species) ==
    CHOOSE k \in 1..Len(team) :
        /\ team[k].species = species
        /\ \A j \in 1..(k - 1) : team[j].species # species

TeamInit ==
    /\ OptimizerIdle
    /\ call = [op |-> "Team", args |-> <<>>]
    /\ ret = <<>>
    /\ err = "none"
    /\ pc = "team"

\* add_pokemon, lines 19-29
add_pokemon ==
    /\ pc = "team"
    /\ \E p \in TeamPool :
          /\ call' = [op |-> "add_pokemon", args |-> <<p>>]
          /\ IF TeamFull(members)
             THEN members' = members /\ ret' = <<FALSE>>
             ELSE IF HasSpecies(members, p.species)
             THEN members' = members /\ ret' = <<FALSE>>
             ELSE members' = Append(members, p) /\ ret' = <<TRUE>>
    /\ UNCHANGED <<pc, err, rolls, optimizer_vars>>

\* remove_pokemon, lines 31-39
remove_pokemon ==
    /\ pc = "team"
    /\ \E species \in TeamSpecies :
          /\ call' = [op |-> "remove_pokemon", args |-> <<species>>]
          /\ IF HasSpecies(members, species)
             THEN /\ members' = DeleteAt(members, FirstOf(members, species))
                  /\ ret' = <<TRUE>>
             ELSE members' = members /\ ret' = <<FALSE>>
    /\ UNCHANGED <<pc, err, rolls, optimizer_vars>>

TeamNext == add_pokemon \/ remove_pokemon

TeamSpec == TeamInit /\ [][TeamNext]_vars

\* no two members share a species
UniqueSpecies ==
    \A j, k \in 1..Len(members) :
        members[j].species = members[k].species => j = k

\* the step is an add_pokemon call on a full team or with a species the
\* team holds already
AddRefused ==
    /\ call'.op = "add_pokemon"
    /\ TeamFull(members) \/ HasSpecies(members, call'.args[1].species)

\* the step is a remove_pokemon call with a species the team does not hold
RemoveRefused ==
    /\ call'.op = "remove_pokemon"
    /\ ~HasSpecies(members, call'.args[1])

\* C28: after any sequence of add_pokemon and remove_pokemon calls on a team
\* that starts empty the team has at most 6 members and no two of them share
\* a species; add_pokemon returns False and leaves members unchanged when the
\* team is full or holds the species, and remove_pokemon returns False and
\* leaves members unchanged when the species is absent.
C28_TeamInvariant ==
    /\ [](Len(members) <= 6 /\ UniqueSpecies)
    /\ [][(AddRefused \/ RemoveRefused) => (ret' = <<FALSE>> /\ members' = members)]_vars

C28_Witness ==
    /\ Len(members) = 6
    /\ call.op = "add_pokemon"
    /\ ret = <<FALSE>>
    /\ ~HasSpecies(members, call.args[1].species)

(***************************************************************************)
(* EVOptimizer._calculate_required_evs_for_stat on its own: one behaviour  *)
(* is one call on an instance, a stat and a target value drawn by          *)
(* SolverInit.  call holds the arguments, ret the integer returned (<<>>   *)
(* while there is none).  The instances have positive base stats, so the   *)
(* division by base_stat (line 358) is defined.                            *)
(***************************************************************************)
SolverNatures == {"serious", "timid", "adamant", "Timid", "Adamant"}

SolverPool ==
    {PokemonInit("solver", level, <<base_stats>>, <<>>, <<>>, nature) :
        level \in {50, 100},
        base_stats \in {AllStats(100), MkStats(35, 55, 40, 50, 50, 90)},
        nature \in SolverNatures}

TargetValues == {50, 100, 150, 200, 250, 300, 350}

SolverInit ==
    /\ OptimizerIdle
    /\ call \in [pokemon : SolverPool, stat : Stats, target_value : TargetValues]
    /\ ret = [evs |-> <<>>]
    /\ err = "none"
    /\ pc = "call"

\* _calculate_required_evs_for_stat, lines 346-360
SolverReturn ==
    /\ pc = "call"
    /\ ret' = [evs |-> <<calculate_required_evs_for_stat(
                            call.pokemon, call.stat, call.target_value)>>]
    /\ pc' = "done"
    /\ UNCHANGED <<call, err, rolls, optimizer_vars, members>>

SolverNext == SolverReturn

SolverSpec == SolverInit /\ [][SolverNext]_vars

\* the final stat of the call's instance with e EVs in the call's stat
StatWithEvs(e) ==
    CalcStat(call.pokemon, [call.pokemon.ev EXCEPT ![call.stat] = e], call.stat)

\* the least e in 0..252 whose final stat reaches the target, 252 when none
LeastEvs ==
    LET reaching == {e \in 0..max_stat_evs : StatWithEvs(e) >= call.target_value}
    IN  IF reaching = {}
        THEN max_stat_evs
        ELSE CHOOSE e \in reaching : \A f \in reaching : e <= f

\* C29: the solver returns the least e in [0, 252] for which the final stat
\* with e EVs reaches the target (252 when no e does), and never more than
\* is needed.
C29_LeastEvs ==
    (pc = "done" /\ StatsDefined(call.pokemon)) => ret.evs[1] = LeastEvs

\* C30: for the nature of the instance and every non-HP stat, calculate_stats
\* applies a multiplier and the multiplier the solver uses (1.1, 0.9 or 1.0)
\* is that multiplier.
C30_SolverMatchesStats ==
    (pc = "done" /\ call.stat # "hp") =>
        /\ StatsDefined(call.pokemon)
        /\ stat_nature(call.pokemon, call.stat)
              = nature_modifiers(call.pokemon.nature)[call.stat]

====
